---- MODULE Spec2Model ----
(***************************************************************************)
(* Model of humumls/tablecreator.py: createdb and the passes it runs over  *)
(* the UMLS Rich Release Format files MRCONSO, MRDEF, MRREL and MRSTY.     *)
(*                                                                         *)
(* A text is a sequence of characters, a character is named by a TLA+      *)
(* string (an ASCII character by itself, any other by "U+<code point>").   *)
(* A line of a file is the sequence of its fields, the value of            *)
(* record.strip().split("|"); field k of the code is element k+1 here.     *)
(* The four files exist, and what a file holds is fixed when it is first   *)
(* opened. The database client and create_index are outside the model.     *)
(* An exception ends createdb: error names it and pc stays where it rose.  *)
(***************************************************************************)
EXTENDS Integers, Sequences, FiniteSets, TLC

(***************************************************************************)
(* Bounds of the model.                                                    *)
(***************************************************************************)
MaxConsoLines == 2
MaxEnrichLines == 1

(***************************************************************************)
(* Characters: code points, UTF-8, str.lower(), \W and whitespace.         *)
(***************************************************************************)
CodePoint ==
    [c \in {"H", "W", "A", "e", "l", "o", "r", "d", "h", "w", "a", "_",
            " ", ",", "!", "U+00C9", "U+00E9", "U+4E2D", "U+1F600"} |->
        CASE c = "H" -> 72 [] c = "W" -> 87 [] c = "A" -> 65
          [] c = "e" -> 101 [] c = "l" -> 108 [] c = "o" -> 111
          [] c = "r" -> 114 [] c = "d" -> 100 [] c = "h" -> 104
          [] c = "w" -> 119 [] c = "a" -> 97 [] c = "_" -> 95
          [] c = " " -> 32 [] c = "," -> 44 [] c = "!" -> 33
          [] c = "U+00C9" -> 201 [] c = "U+00E9" -> 233
          [] c = "U+4E2D" -> 20013 [] c = "U+1F600" -> 128512]

Alphabet == DOMAIN CodePoint

CharOf(cp) == CHOOSE c \in Alphabet : CodePoint[c] = cp

\* str.encode("utf-8") of one character
EncodeChar(c) ==
    LET cp == CodePoint[c] IN
    IF cp < 128 THEN <<cp>>
    ELSE IF cp < 2048 THEN <<192 + (cp \div 64), 128 + (cp % 64)>>
    ELSE IF cp < 65536 THEN
        <<224 + (cp \div 4096), 128 + ((cp \div 64) % 64), 128 + (cp % 64)>>
    ELSE <<240 + (cp \div 262144), 128 + ((cp \div 4096) % 64),
           128 + ((cp \div 64) % 64), 128 + (cp % 64)>>

RECURSIVE Flatten(_, _, _)
\* the concatenation of ss[lo], ..., ss[hi], by halving
Flatten(ss, lo, hi) ==
    IF lo > hi THEN <<>>
    ELSE IF lo = hi THEN ss[lo]
    ELSE LET mid == (lo + hi) \div 2
         IN  Flatten(ss, lo, mid) \o Flatten(ss, mid + 1, hi)

\* string.encode("utf-8")
Encode(s) == Flatten([i \in 1..Len(s) |-> EncodeChar(s[i])], 1, Len(s))

IsContinuation(b) == b >= 128 /\ b < 192

\* the number of bytes the lead byte b announces, 0 when b cannot lead
LeadLen(b) ==
    IF b < 128 THEN 1
    ELSE IF b >= 192 /\ b < 224 THEN 2
    ELSE IF b >= 224 /\ b < 240 THEN 3
    ELSE IF b >= 240 /\ b < 248 THEN 4
    ELSE 0

\* the positions of bs that are not continuation bytes, in order
Leads(bs) ==
    LET notCont(i) == ~IsContinuation(bs[i])
    IN  SelectSeq([i \in 1..Len(bs) |-> i], notCont)

\* bytes.decode("utf-8") raises UnicodeDecodeError
DecodeFails(bs) ==
    \/ Len(bs) > 0 /\ IsContinuation(bs[1])
    \/ \E i \in 1..Len(bs) :
          /\ ~IsContinuation(bs[i])
          /\ LET n == LeadLen(bs[i]) IN
             \/ n = 0
             \/ i + n - 1 > Len(bs)
             \/ \E j \in (i + 1)..(i + n - 1) : ~IsContinuation(bs[j])
             \/ i + n <= Len(bs) /\ IsContinuation(bs[i + n])

DecodeChar(bs, i) ==
    LET n == LeadLen(bs[i]) IN
    CharOf(CASE n = 1 -> bs[i]
             [] n = 2 -> (bs[i] - 192) * 64 + (bs[i + 1] - 128)
             [] n = 3 -> (bs[i] - 224) * 4096 + (bs[i + 1] - 128) * 64
                          + (bs[i + 2] - 128)
             [] n = 4 -> (bs[i] - 240) * 262144 + (bs[i + 1] - 128) * 4096
                          + (bs[i + 2] - 128) * 64 + (bs[i + 3] - 128))

\* bytes.decode("utf-8") when it does not raise
Decode(bs) ==
    LET starts == Leads(bs)
    IN  [k \in 1..Len(starts) |-> DecodeChar(bs, starts[k])]

\* re.compile("\W") matches the character (a str pattern: letters and digits
\* of any script and "_" are word characters)
PUNCT(c) == c \in {" ", ",", "!", "U+1F600"}

\* PUNCT.sub(" ", string)
PunctSub(s) == [i \in 1..Len(s) |-> IF PUNCT(s[i]) THEN " " ELSE s[i]]

LowerChar(c) ==
    CASE c = "H" -> "h" [] c = "W" -> "w" [] c = "A" -> "a"
      [] c = "U+00C9" -> "U+00E9" [] OTHER -> c

\* str.lower()
Lower(s) == [i \in 1..Len(s) |-> LowerChar(s[i])]

IsSpace(c) == c = " "

\* str.split(): the maximal runs of characters that are not whitespace
Split(s) ==
    LET isStart(i) == ~IsSpace(s[i]) /\ (i = 1 \/ IsSpace(s[i - 1]))
        isEnd(i) == ~IsSpace(s[i]) /\ (i = Len(s) \/ IsSpace(s[i + 1]))
        idx == [i \in 1..Len(s) |-> i]
        starts == SelectSeq(idx, isStart)
        ends == SelectSeq(idx, isEnd)
    IN  [k \in 1..Len(starts) |-> SubSeq(s, starts[k], ends[k])]

\* " ".join(words)
Join(words) ==
    Flatten([k \in 1..Len(words) |->
                IF k = 1 THEN words[k] ELSE <<" ">> \o words[k]],
            1, Len(words))

Rep(c, n) == [i \in 1..n |-> c]

(***************************************************************************)
(* Dictionaries: a dict is a function, defaultdict(list) reads a missing   *)
(* key as [] and defaultdict(defaultdict_list) reads a missing key as {}.  *)
(***************************************************************************)
EmptyDict == <<>>

Put(d, k, v) == [y \in (DOMAIN d) \cup {k} |-> IF y = k THEN v ELSE d[y]]

GetList(d, k) == IF k \in DOMAIN d THEN d[k] ELSE <<>>

GetDict(d, k) == IF k \in DOMAIN d THEN d[k] ELSE EmptyDict

(***************************************************************************)
(* The tables of the module.                                               *)
(***************************************************************************)
LANGDICT ==
    [l \in {"ENG", "BAQ", "CHI", "CZE", "DAN", "DUT", "EST", "FIN", "FRE",
            "GER", "GRE", "HEB", "HUN", "ITA", "JPN", "KOR", "LAV", "NOR",
            "POL", "POR", "RUS", "SPA", "SWE", "TUR"} |->
        CASE l = "ENG" -> "en" [] l = "BAQ" -> "eu" [] l = "CHI" -> "zh"
          [] l = "CZE" -> "cz" [] l = "DAN" -> "dk" [] l = "DUT" -> "nl"
          [] l = "EST" -> "et" [] l = "FIN" -> "fi" [] l = "FRE" -> "fr"
          [] l = "GER" -> "de" [] l = "GRE" -> "gr" [] l = "HEB" -> "he"
          [] l = "HUN" -> "hu" [] l = "ITA" -> "it" [] l = "JPN" -> "jp"
          [] l = "KOR" -> "ko" [] l = "LAV" -> "lv" [] l = "NOR" -> "no"
          [] l = "POL" -> "pl" [] l = "POR" -> "po" [] l = "RUS" -> "ru"
          [] l = "SPA" -> "sp" [] l = "SWE" -> "sw" [] l = "TUR" -> "tr"]

RELATIONMAPPING ==
    [c \in {"PAR", "CHD", "RB", "RN", "SY", "RO", "RL", "RQ", "SIB", "AQ",
            "QB", "RU", "XR"} |->
        CASE c = "PAR" -> "parent" [] c = "CHD" -> "child"
          [] c = "RB" -> "broader" [] c = "RN" -> "narrower"
          [] c = "SY" -> "synonym" [] c = "RO" -> "other"
          [] c = "RL" -> "similar" [] c = "RQ" -> "related"
          [] c = "SIB" -> "sibling" [] c = "AQ" -> "qualifier"
          [] c = "QB" -> "qualifies" [] c = "RU" -> "unspecified"
          [] c = "XR" -> "notrelated"]

\* the byte length from which _create_strings truncates, and to which
BSONLimit == 1000

(***************************************************************************)
(* The outcome of one pass over a line: the aggregate it leaves, or the    *)
(* exception it raises.                                                    *)
(***************************************************************************)
Ok(v) == [raises |-> "none", val |-> v]

Raise(e, v) == [raises |-> e, val |-> v]

\* `languages and split[1] not in languages` raises IndexError
FilterRaises(langs, split) == langs # {} /\ Len(split) < 2

\* Rejected with the term-status column read in place of the language
RejectedByStatus(langs, split) == langs # {} /\ split[3] \notin langs

\* `languages and split[1] not in languages`, the line is skipped
Rejected(langs, split) == langs # {} /\ split[2] \notin langs

\* the body of the loop of _create_terms
TermsBody(ts, langs, split) ==
    IF FilterRaises(langs, split) THEN Raise("IndexError", ts)
    ELSE IF Rejected(langs, split) THEN Ok(ts)
    ELSE IF Len(split) < 6 THEN Raise("IndexError", ts)
    ELSE LET cui == split[1]
             sui == split[6]
             lui == split[4]
             t == GetDict(ts, lui)
         IN  Ok(Put(ts, lui,
                    [_id |-> lui,
                     cui |-> Append(GetList(t, "cui"), cui),
                     sui |-> Append(GetList(t, "sui"), sui)]))

\* Truncate cutting the text at 1000 characters, not at 1000 bytes
TruncateCharacters(string) ==
    Ok(SubSeq(string, 1, IF Len(string) < BSONLimit THEN Len(string)
                         ELSE BSONLimit))

\* the BSON length check of _create_strings
Truncate(string) ==
    LET byte_string == Encode(string) IN
    IF Len(byte_string) >= BSONLimit
    THEN LET cut == SubSeq(byte_string, 1, BSONLimit)
         IN  IF DecodeFails(cut) THEN Raise("UnicodeDecodeError", string)
             ELSE Ok(Decode(cut))
    ELSE Ok(string)

\* Lexical without the call of lower()
LexicalNotLowered(string) == Join(Split(PunctSub(string)))

\* the lexical representation of _create_strings
Lexical(string) == Join(Split(Lower(PunctSub(string))))

\* the body of the loop of _create_strings
StringsBody(ss, langs, split) ==
    IF Len(split) < 15 THEN Raise("IndexError", ss)
    ELSE LET tr == Truncate(split[15]) IN
    IF tr.raises # "none" THEN Raise(tr.raises, ss)
    ELSE IF Rejected(langs, split) THEN Ok(ss)
    ELSE LET string == tr.val
             cui == split[1]
             sui == split[6]
             lui == split[4]
             lowerwords == Lexical(string)
         IN  Ok(Put(ss, sui,
                    [_id |-> sui,
                     string |-> string,
                     lower |-> lowerwords,
                     lang |-> split[2],
                     numwords |-> Len(Split(string)),
                     numwordslower |-> Len(Split(lowerwords)),
                     lui |-> lui,
                     cui |-> Append(GetList(GetDict(ss, sui), "cui"), cui)]))

\* ConceptsBody storing the SUI, not the LUI, as the preferred term
ConceptsBodyPreferredSui(cs, langs, split) ==
    IF FilterRaises(langs, split) THEN Raise("IndexError", cs)
    ELSE IF Rejected(langs, split) THEN Ok(cs)
    ELSE IF Len(split) < 6 THEN Raise("IndexError", cs)
    ELSE LET cui == split[1]
             sui == split[6]
             lui == split[4]
             c1 == Put(GetDict(cs, cui), "_id", cui)
             c2 == IF split[3] = "P" THEN Put(c1, "preferred", sui) ELSE c1
             c3 == Put(c2, "lui", Append(GetList(c2, "lui"), lui))
             c4 == Put(c3, "sui", Append(GetList(c3, "sui"), sui))
         IN  Ok(Put(cs, cui, c4))

\* the body of the MRCONSO loop of _create_concepts
ConceptsBody(cs, langs, split) ==
    IF FilterRaises(langs, split) THEN Raise("IndexError", cs)
    ELSE IF Rejected(langs, split) THEN Ok(cs)
    ELSE IF Len(split) < 6 THEN Raise("IndexError", cs)
    ELSE LET cui == split[1]
             sui == split[6]
             lui == split[4]
             c1 == Put(GetDict(cs, cui), "_id", cui)
             c2 == IF split[3] = "P" THEN Put(c1, "preferred", lui) ELSE c1
             c3 == Put(c2, "lui", Append(GetList(c2, "lui"), lui))
             c4 == Put(c3, "sui", Append(GetList(c3, "sui"), sui))
         IN  Ok(Put(cs, cui, c4))

\* langid.classify(definition)[0], for the definition texts of the model
Classify(definition) ==
    CASE definition = "A disease of the heart." -> "en"
      [] definition = "Une maladie du coeur." -> "fr"
      [] OTHER -> "la"

\* preprocessor(definition), for the preprocessors of the model
Preprocess(preprocessor, definition) ==
    IF preprocessor = "identity" THEN definition
    ELSE <<"tokens of", definition>>

\* MrdefBody filtering as the MRCONSO loops do: no language, no filter
MrdefBodyEmptyKeepsAll(cs, langs, preprocessor, split) ==
    LET isolanguages == {LANGDICT[l] : l \in langs} IN
    IF Len(split) < 6 THEN Raise("IndexError", cs)
    ELSE LET pk == split[1]
             definition == split[6]
             lang == Classify(definition)
         IN  IF isolanguages # {} /\ lang \notin isolanguages THEN Ok(cs)
             ELSE LET c == GetDict(cs, pk)
                      d == Preprocess(preprocessor, definition)
                  IN  Ok(Put(cs, pk,
                             Put(c, "definition",
                                 Append(GetList(c, "definition"), d))))

\* the body of the loop of process_mrdef
MrdefBody(cs, langs, preprocessor, split) ==
    LET isolanguages == {LANGDICT[l] : l \in langs} IN
    IF Len(split) < 6 THEN Raise("IndexError", cs)
    ELSE LET pk == split[1]
             definition == split[6]
             lang == Classify(definition)
         IN  IF lang \notin isolanguages THEN Ok(cs)
             ELSE LET c == GetDict(cs, pk)
                      d == Preprocess(preprocessor, definition)
                  IN  Ok(Put(cs, pk,
                             Put(c, "definition",
                                 Append(GetList(c, "definition"), d))))

\* the body of the loop of process_mrrel
MrrelBody(cs, split) ==
    IF Len(split) < 5 THEN Raise("IndexError", cs)
    ELSE IF split[4] \notin DOMAIN RELATIONMAPPING THEN Raise("KeyError", cs)
    ELSE LET source == split[5]
             dest == split[1]
             rel == RELATIONMAPPING[split[4]]
             c == GetDict(cs, source)
             \* a missing "rel" reads as [], indexing it raises TypeError and
             \* the handler puts an empty defaultdict(list) in its place
             r == IF "rel" \in DOMAIN c THEN c["rel"] ELSE EmptyDict
         IN  Ok(Put(cs, source,
                    Put(c, "rel", Put(r, rel, Append(GetList(r, rel), dest)))))

\* the body of the loop of process_mrsty
MrstyBody(cs, split) ==
    IF Len(split) < 3 THEN Raise("IndexError", cs)
    ELSE LET cui == split[1]
             semantic_type == split[3]
             c == GetDict(cs, cui)
         IN  Ok(Put(cs, cui,
                    Put(c, "semtype",
                        Append(GetList(c, "semtype"), semantic_type))))

(***************************************************************************)
(* The inputs of the model: lines of the four files and the arguments of   *)
(* createdb.                                                               *)
(***************************************************************************)
Conso(cui, lang, ts, lui, sui, str) ==
    <<cui, lang, ts, lui, "", sui, "", "", "", "", "", "", "", "", str,
      "", "", "", "">>

HelloWorld == <<"H", "e", "l", "l", "o", ",", " ", "W", "o", "r", "l", "d", "!">>

\* 1002 bytes, byte 1000 is the last byte of a character
LongWhole == Rep("U+1F600", 249) \o <<"a", "U+4E2D", "U+00E9">>

\* 1001 bytes, byte 1000 is the first of the two bytes of a character
LongSplit == Rep("U+1F600", 249) \o <<"a", "a", "a", "U+00E9">>

ShortConsoRows ==
    <<Conso("C001", "ENG", "P", "L001", "S001", HelloWorld),
     Conso("C001", "ENG", "P", "L002", "S001", <<" ", "a">>),
     Conso("C001", "FRE", "S", "L003", "S002",
           <<"U+00C9", "_", " ", "U+4E2D">>),
     <<"C002", "FRE", "P">>,
     <<"">>,
     <<"C001", "ENG", "S", "L001", "", "S001">>>>

LongConsoRows ==
    <<Conso("C002", "ENG", "S", "L001", "S002", LongWhole),
     Conso("C002", "FRE", "S", "L002", "S003", LongSplit)>>

DefRows ==
    <<<<"C001", "A001", "AT01", "", "MSH", "A disease of the heart.", "N", "">>,
     <<"C002", "A002", "AT02", "", "MSH", "Une maladie du coeur.", "N", "">>,
     <<"C001", "A001", "AT01">>>>

RelRows ==
    <<<<"C001", "A001", "AUI", "PAR", "C002", "A002", "AUI", "", "R01", "">>,
     <<"C002", "A002", "AUI", "CHD", "C001", "A001", "AUI", "", "R02", "">>,
     <<"C001", "A001", "AUI", "ZZZ", "C002", "A002", "AUI", "", "R03", "">>,
     <<"C001", "A001", "AUI", "PAR">>>>

StyRows ==
    <<<<"C001", "T047", "B2.2.1.2.1", "Disease or Syndrome", "AT03", "">>,
     <<"C003", "T121", "A1.4.1.1.1", "Pharmacologic Substance", "AT04", "">>,
     <<"C001", "T047">>>>

LanguageChoices == SUBSET {"ENG", "ENGLISH"}

Preprocessors == {"identity", "tokenizer"}

VARIABLES
    languages,               \* createdb's argument, as the set of line 103
    process_definitions,     \* createdb's argument
    process_relations,       \* createdb's argument
    process_semantic_types,  \* createdb's argument
    preprocessor,            \* createdb's argument
    files,                   \* file name -> lines, for the files opened so far
    pc,                      \* where createdb is
    idx,                     \* the lines the running loop has been through
    terms,                   \* the dict of _create_terms
    strings,                 \* the dict of _create_strings
    concepts,                \* the dict of _create_concepts
    error,                   \* the exception that ended createdb, or "none"
    returned                 \* <<concepts, strings, terms>> once returned

vars == <<languages, process_definitions, process_relations,
          process_semantic_types, preprocessor, files, pc, idx, terms,
          strings, concepts, error, returned>>

args == <<languages, process_definitions, process_relations,
          process_semantic_types, preprocessor>>

Init ==
    /\ languages \in LanguageChoices
    /\ process_definitions \in BOOLEAN
    /\ process_relations \in BOOLEAN
    /\ process_semantic_types \in BOOLEAN
    /\ preprocessor \in Preprocessors
    /\ files = EmptyDict
    /\ pc = "validate"
    /\ idx = 0
    /\ terms = EmptyDict
    /\ strings = EmptyDict
    /\ concepts = EmptyDict
    /\ error = "none"
    /\ returned = <<>>

\* createdb called with the three passes over MRDEF, MRREL, MRSTY disabled
InitConso ==
    /\ Init
    /\ ~process_definitions
    /\ ~process_relations
    /\ ~process_semantic_types
    /\ preprocessor = "identity"

\* LanguagesValid without the lookup
LanguagesNotLookedUp(langs) == TRUE

\* every key of LANGDICT looked up at line 107 is there
LanguagesValid(langs) == langs \subseteq DOMAIN LANGDICT

\* createdb, lines 99-109
Validate ==
    /\ pc = "validate" /\ error = "none"
    /\ IF LanguagesValid(languages)
       THEN pc' = "terms_open" /\ error' = error
       ELSE pc' = pc /\ error' = "KeyError"
    /\ UNCHANGED <<args, files, idx, terms, strings, concepts, returned>>

\* `for idx, _ in enumerate(open(path)): pass` and `num_lines = idx`, an
\* UnboundLocalError when the file f has no line
Counted(f, loop) ==
    /\ IF Len(f) = 0
       THEN pc' = pc /\ error' = "UnboundLocalError"
       ELSE pc' = loop /\ error' = error
    /\ idx' = 0

\* the first open(path) of the file: it holds at most n lines, each one
\* of rows
FirstOpen(at, name, rows, n, loop) ==
    /\ pc = at /\ error = "none"
    /\ \E k \in 0..n : \E pick \in [1..k -> 1..Len(rows)] :
          LET f == [i \in 1..k |-> rows[pick[i]]]
          IN  /\ files' = Put(files, name, f)
              /\ Counted(f, loop)

\* a later open(path) of the file, which holds what it held
Reopen(at, name, loop) ==
    /\ pc = at /\ error = "none"
    /\ files' = files
    /\ Counted(files[name], loop)

\* the loop has a line left to read
Reading(at, name) ==
    /\ pc = at /\ error = "none"
    /\ idx < Len(files[name])

\* what the loop body leaves: the loop goes on, ends, or raises
Advance(name, out, after) ==
    IF out.raises # "none"
    THEN error' = out.raises /\ pc' = pc /\ idx' = idx
    ELSE /\ error' = error
         /\ idx' = idx + 1
         /\ pc' = IF idx + 1 = Len(files[name]) THEN after ELSE pc

\* _create_concepts, lines 188-195: the pass that runs after pass number n
AfterPass(n) ==
    IF n < 1 /\ process_definitions THEN "mrdef_open"
    ELSE IF n < 2 /\ process_relations THEN "mrrel_open"
    ELSE IF n < 3 /\ process_semantic_types THEN "mrsty_open"
    ELSE "create_index"

TermsOpen(rows) ==
    /\ FirstOpen("terms_open", "MRCONSO.RRF", rows, MaxConsoLines, "terms_loop")
    /\ UNCHANGED <<args, terms, strings, concepts, returned>>

TermsRecord ==
    /\ Reading("terms_loop", "MRCONSO.RRF")
    /\ LET out == TermsBody(terms, languages, files["MRCONSO.RRF"][idx + 1])
       IN  /\ terms' = out.val
           /\ Advance("MRCONSO.RRF", out, "strings_open")
    /\ UNCHANGED <<args, files, strings, concepts, returned>>

StringsOpen ==
    /\ Reopen("strings_open", "MRCONSO.RRF", "strings_loop")
    /\ UNCHANGED <<args, terms, strings, concepts, returned>>

StringsRecord ==
    /\ Reading("strings_loop", "MRCONSO.RRF")
    /\ LET out == StringsBody(strings, languages,
                              files["MRCONSO.RRF"][idx + 1])
       IN  /\ strings' = out.val
           /\ Advance("MRCONSO.RRF", out, "concepts_open")
    /\ UNCHANGED <<args, files, terms, concepts, returned>>

ConceptsOpen ==
    /\ Reopen("concepts_open", "MRCONSO.RRF", "concepts_loop")
    /\ UNCHANGED <<args, terms, strings, concepts, returned>>

ConceptsRecord ==
    /\ Reading("concepts_loop", "MRCONSO.RRF")
    /\ LET out == ConceptsBody(concepts, languages,
                               files["MRCONSO.RRF"][idx + 1])
       IN  /\ concepts' = out.val
           /\ Advance("MRCONSO.RRF", out, AfterPass(0))
    /\ UNCHANGED <<args, files, terms, strings, returned>>

\* process_mrdef, lines 335-342; line 335 looks every language up again
MrdefOpen ==
    /\ IF languages \subseteq DOMAIN LANGDICT
       THEN FirstOpen("mrdef_open", "MRDEF.RRF", DefRows, MaxEnrichLines,
                      "mrdef_loop")
       ELSE /\ pc = "mrdef_open" /\ error = "none"
            /\ error' = "KeyError"
            /\ UNCHANGED <<pc, idx, files>>
    /\ UNCHANGED <<args, terms, strings, concepts, returned>>

\* process_mrdef, lines 345-370; lines 364-368 copy each list onto itself
MrdefRecord ==
    /\ Reading("mrdef_loop", "MRDEF.RRF")
    /\ LET out == MrdefBody(concepts, languages, preprocessor,
                            files["MRDEF.RRF"][idx + 1])
       IN  /\ concepts' = out.val
           /\ Advance("MRDEF.RRF", out, AfterPass(1))
    /\ UNCHANGED <<args, files, terms, strings, returned>>

MrrelOpen ==
    /\ FirstOpen("mrrel_open", "MRREL.RRF", RelRows, MaxEnrichLines,
                 "mrrel_loop")
    /\ UNCHANGED <<args, terms, strings, concepts, returned>>

MrrelRecord ==
    /\ Reading("mrrel_loop", "MRREL.RRF")
    /\ LET out == MrrelBody(concepts, files["MRREL.RRF"][idx + 1])
       IN  /\ concepts' = out.val
           /\ Advance("MRREL.RRF", out, AfterPass(2))
    /\ UNCHANGED <<args, files, terms, strings, returned>>

MrstyOpen ==
    /\ FirstOpen("mrsty_open", "MRSTY.RRF", StyRows, MaxEnrichLines,
                 "mrsty_loop")
    /\ UNCHANGED <<args, terms, strings, concepts, returned>>

MrstyRecord ==
    /\ Reading("mrsty_loop", "MRSTY.RRF")
    /\ LET out == MrstyBody(concepts, files["MRSTY.RRF"][idx + 1])
       IN  /\ concepts' = out.val
           /\ Advance("MRSTY.RRF", out, AfterPass(3))
    /\ UNCHANGED <<args, files, terms, strings, returned>>

\* createdb, lines 121-126
CreateIndex ==
    /\ pc = "create_index" /\ error = "none"
    /\ pc' = "done"
    /\ returned' = <<concepts, strings, terms>>
    /\ UNCHANGED <<args, files, idx, terms, strings, concepts, error>>

\* the three passes over MRCONSO
ConsoPasses ==
    \/ TermsRecord
    \/ StringsOpen
    \/ StringsRecord
    \/ ConceptsOpen
    \/ ConceptsRecord

Next ==
    \/ Validate
    \/ TermsOpen(ShortConsoRows)
    \/ ConsoPasses
    \/ MrdefOpen
    \/ MrdefRecord
    \/ MrrelOpen
    \/ MrrelRecord
    \/ MrstyOpen
    \/ MrstyRecord
    \/ CreateIndex

Spec == Init /\ [][Next]_vars

\* createdb without the passes over MRDEF, MRREL and MRSTY, over MRCONSO
\* files that also have strings of 1000 bytes and more
NextConso ==
    \/ Validate
    \/ TermsOpen(ShortConsoRows \o LongConsoRows)
    \/ ConsoPasses
    \/ CreateIndex

SpecConso == InitConso /\ [][NextConso]_vars

(***************************************************************************)
(* What the passes have read.                                              *)
(***************************************************************************)
Rank(at) ==
    CASE at = "validate" -> 0
      [] at = "terms_open" -> 1 [] at = "terms_loop" -> 2
      [] at = "strings_open" -> 3 [] at = "strings_loop" -> 4
      [] at = "concepts_open" -> 5 [] at = "concepts_loop" -> 6
      [] at = "mrdef_open" -> 7 [] at = "mrdef_loop" -> 8
      [] at = "mrrel_open" -> 9 [] at = "mrrel_loop" -> 10
      [] at = "mrsty_open" -> 11 [] at = "mrsty_loop" -> 12
      [] at = "create_index" -> 13 [] at = "done" -> 14

\* the lines of the file that the loop `loop` has gone through without raising
Consumed(loop, name) ==
    LET f == GetList(files, name)
    IN  IF pc = loop THEN SubSeq(f, 1, idx)
        ELSE IF Rank(pc) > Rank(loop) THEN f
        ELSE <<>>

TermsLines == Consumed("terms_loop", "MRCONSO.RRF")
StringsLines == Consumed("strings_loop", "MRCONSO.RRF")
ConceptsLines == Consumed("concepts_loop", "MRCONSO.RRF")
MrdefLines == Consumed("mrdef_loop", "MRDEF.RRF")
MrrelLines == Consumed("mrrel_loop", "MRREL.RRF")
MrstyLines == Consumed("mrsty_loop", "MRSTY.RRF")

\* the language of the line is accepted: no language is configured, or the
\* language field is one of the configured languages
Accepted(split) ==
    languages = {} \/ (Len(split) >= 2 /\ split[2] \in languages)

\* the values of column key in the lines
KeysOf(lines, key) ==
    {lines[i][key] : i \in {j \in 1..Len(lines) : Len(lines[j]) >= key}}

\* column val of the accepted lines whose column key is k, in file order
Contribution(lines, key, k, val) ==
    LET sel(split) == Accepted(split) /\ Len(split) >= key /\ split[key] = k
        rows == SelectSeq(lines, sel)
    IN  [i \in 1..Len(rows) |-> rows[i][val]]

IsPrefix(s, t) == Len(s) <= Len(t) /\ s = SubSeq(t, 1, Len(s))

(***************************************************************************)
(* C1. In each of the three passes over MRCONSO, of the lines the pass has *)
(* gone through, the accepted ones and only they have contributed: the     *)
(* cui and sui lists of a term, the cui list of a string and the lui and   *)
(* sui lists of a concept are the columns of the accepted lines keyed by   *)
(* it, in file order, where every line is accepted when no language is     *)
(* configured and otherwise a line is accepted if and only if its language *)
(* field is one of the configured languages; so the lang of every string   *)
(* record is a configured language when languages are configured.          *)
(***************************************************************************)
C1_LanguageFilter ==
    /\ \A k \in KeysOf(TermsLines, 4) \cup DOMAIN terms :
          /\ GetList(GetDict(terms, k), "cui")
                = Contribution(TermsLines, 4, k, 1)
          /\ GetList(GetDict(terms, k), "sui")
                = Contribution(TermsLines, 4, k, 6)
    /\ \A k \in KeysOf(StringsLines, 6) \cup DOMAIN strings :
          GetList(GetDict(strings, k), "cui")
             = Contribution(StringsLines, 6, k, 1)
    /\ \A k \in DOMAIN strings :
          languages # {} => strings[k].lang \in languages
    /\ \A k \in KeysOf(ConceptsLines, 1) \cup DOMAIN concepts :
          /\ GetList(GetDict(concepts, k), "lui")
                = Contribution(ConceptsLines, 1, k, 4)
          /\ GetList(GetDict(concepts, k), "sui")
                = Contribution(ConceptsLines, 1, k, 6)

\* createdb has returned, with languages configured, from a file with a line
\* in a configured language and a line in another language
C1_Witness ==
    /\ returned # <<>>
    /\ languages # {}
    /\ \E i, j \in 1..Len(files["MRCONSO.RRF"]) :
          /\ files["MRCONSO.RRF"][i][2] \in languages
          /\ files["MRCONSO.RRF"][j][2] \notin languages
    /\ DOMAIN strings # {}

(***************************************************************************)
(* C2. The string of every string record is at most 1000 bytes long in     *)
(* UTF-8, decodes without error, and is a prefix, in whole characters, of  *)
(* the surface string of an accepted line with the SUI of the record.      *)
(***************************************************************************)
C2_StringBounded ==
    \A k \in DOMAIN strings :
       /\ Len(Encode(strings[k].string)) <= BSONLimit
       /\ ~DecodeFails(Encode(strings[k].string))
       /\ \E i \in 1..Len(StringsLines) :
             /\ Accepted(StringsLines[i])
             /\ StringsLines[i][6] = k
             /\ IsPrefix(strings[k].string, StringsLines[i][15])

\* a string record holds the first 1000 bytes of a longer surface string that
\* has characters of more than one byte
C2_Witness ==
    \E k \in DOMAIN strings :
       /\ Len(Encode(strings[k].string)) = BSONLimit
       /\ Len(strings[k].string) < BSONLimit
       /\ \E i \in 1..Len(StringsLines) :
             /\ StringsLines[i][6] = k
             /\ Len(StringsLines[i][15]) > Len(strings[k].string)

(***************************************************************************)
(* C3. A concept that has a preferred term has it in its lui list, and it  *)
(* is the LUI of the last accepted line of the concept whose term status   *)
(* is "P", whichever of the passes over MRDEF, MRREL and MRSTY have run.   *)
(***************************************************************************)
PreferredLines(k) ==
    LET sel(split) == Accepted(split) /\ split[1] = k /\ split[3] = "P"
    IN  SelectSeq(ConceptsLines, sel)

C3_PreferredInLui ==
    \A k \in DOMAIN concepts :
       "preferred" \in DOMAIN concepts[k] =>
          /\ \E i \in 1..Len(GetList(concepts[k], "lui")) :
                concepts[k]["lui"][i] = concepts[k]["preferred"]
          /\ Len(PreferredLines(k)) > 0
          /\ concepts[k]["preferred"]
                = PreferredLines(k)[Len(PreferredLines(k))][4]

\* createdb has returned, after a pass over MRDEF, MRREL or MRSTY, a concept
\* whose preferred term is not the last of its lui list
C3_Witness ==
    /\ returned # <<>>
    /\ process_definitions \/ process_relations \/ process_semantic_types
    /\ \E k \in DOMAIN returned[1] :
          /\ "preferred" \in DOMAIN returned[1][k]
          /\ Len(returned[1][k]["lui"]) > 1
          /\ returned[1][k]["lui"][Len(returned[1][k]["lui"])]
                # returned[1][k]["preferred"]

(***************************************************************************)
(* C4. Of the lines of MRREL the pass has gone through, the concept keyed  *)
(* by column 0 of a line has column 4 of the line in its relation list     *)
(* named by column 3: the relation list `name` of the concept s is column  *)
(* 4 of the lines whose column 0 is s and whose code maps to `name`.       *)
(***************************************************************************)
C4_SubjectGetsObject ==
    \A s \in KeysOf(MrrelLines, 1) \cup KeysOf(MrrelLines, 5) :
       \A i \in 1..Len(MrrelLines) :
          LET name == RELATIONMAPPING[MrrelLines[i][4]]
              sel(split) == split[1] = s /\ RELATIONMAPPING[split[4]] = name
              rows == SelectSeq(MrrelLines, sel)
          IN  GetList(GetDict(GetDict(concepts, s), "rel"), name)
                 = [j \in 1..Len(rows) |-> rows[j][5]]

(***************************************************************************)
(* C5. When a configured language is no key of LANGDICT, createdb opens no *)
(* file and returns nothing: it is at its validation, which has raised     *)
(* KeyError or is about to, whatever the three toggles are.                *)
(***************************************************************************)
C5_FailFast ==
    (\E l \in languages : l \notin DOMAIN LANGDICT) =>
       /\ DOMAIN files = {}
       /\ returned = <<>>
       /\ pc = "validate"
       /\ error = "none" \/ error = "KeyError"

\* createdb has raised KeyError with the three passes enabled
C5_Witness ==
    /\ \E l \in languages : l \notin DOMAIN LANGDICT
    /\ error = "KeyError"
    /\ process_definitions /\ process_relations /\ process_semantic_types

(***************************************************************************)
(* C6. The original statement: the lower of a string record whose string   *)
(* is under 1000 bytes and has only word characters and single spaces is   *)
(* the string lowercased, character for character.                         *)
(***************************************************************************)
WordsAndSingleSpaces(s) ==
    /\ \A i \in 1..Len(s) : ~PUNCT(s[i]) \/ s[i] = " "
    /\ \A i \in 1..(Len(s) - 1) : ~(s[i] = " " /\ s[i + 1] = " ")

C6_LowerIsLowercased ==
    \A k \in DOMAIN strings :
       (/\ Len(Encode(strings[k].string)) < BSONLimit
        /\ WordsAndSingleSpaces(strings[k].string))
          => strings[k].lower = Lower(strings[k].string)

(***************************************************************************)
(* C6, amended. The lower of a string record whose string is under 1000    *)
(* bytes, has only word characters and single spaces and neither begins    *)
(* nor ends with a space is the string lowercased, character for           *)
(* character.                                                              *)
(***************************************************************************)
C6_LowerIsLowercasedInside ==
    \A k \in DOMAIN strings :
       (/\ Len(Encode(strings[k].string)) < BSONLimit
        /\ WordsAndSingleSpaces(strings[k].string)
        /\ Len(strings[k].string) > 0 =>
              /\ strings[k].string[1] # " "
              /\ strings[k].string[Len(strings[k].string)] # " ")
          => strings[k].lower = Lower(strings[k].string)

\* a string record of two words, one of them with an uppercase character
C6_Witness ==
    \E k \in DOMAIN strings :
       /\ WordsAndSingleSpaces(strings[k].string)
       /\ strings[k].string[1] # " "
       /\ strings[k].string[Len(strings[k].string)] # " "
       /\ strings[k].numwords = 2
       /\ Lower(strings[k].string) # strings[k].string

(***************************************************************************)
(* C7. No pass goes past a line with fewer fields than the columns the     *)
(* pass reads: every line a pass has gone through has the fields of the    *)
(* pass (6 for terms and concepts, 15 for strings, 6 for MRDEF, 5 for      *)
(* MRREL, 3 for MRSTY).                                                    *)
(***************************************************************************)
AllHave(lines, n) == \A i \in 1..Len(lines) : Len(lines[i]) >= n

C7_ShortLineNeverSkipped ==
    /\ AllHave(TermsLines, 6)
    /\ AllHave(StringsLines, 15)
    /\ AllHave(ConceptsLines, 6)
    /\ AllHave(MrdefLines, 6)
    /\ AllHave(MrrelLines, 5)
    /\ AllHave(MrstyLines, 3)

(***************************************************************************)
(* C8. Of the lines of MRDEF the pass has gone through, the definition     *)
(* list of the concept keyed k is preprocessor(text) of the lines whose    *)
(* column 0 is k and whose text the classifier puts in a language of       *)
(* {LANGDICT[l] : l in languages}, in file order; so no definition is      *)
(* kept when no language is configured.                                    *)
(***************************************************************************)
C8_DefinitionsKept ==
    \A k \in KeysOf(MrdefLines, 1) \cup DOMAIN concepts :
       LET sel(split) ==
               /\ split[1] = k
               /\ Classify(split[6]) \in {LANGDICT[l] : l \in languages}
           rows == SelectSeq(MrdefLines, sel)
       IN  /\ GetList(GetDict(concepts, k), "definition")
                 = [i \in 1..Len(rows) |-> Preprocess(preprocessor, rows[i][6])]
           /\ languages = {} => "definition" \notin DOMAIN GetDict(concepts, k)

\* the pass has kept a definition, tokenized, for a concept of MRCONSO
C8_Witness ==
    /\ Len(MrdefLines) > 0
    /\ preprocessor = "tokenizer"
    /\ \E k \in DOMAIN concepts :
          /\ "definition" \in DOMAIN concepts[k]
          /\ "lui" \in DOMAIN concepts[k]

(***************************************************************************)
(* C9. Every concept has _id equal to its key and lui and sui lists that   *)
(* are not empty, and its key is the CUI of an accepted line of MRCONSO.   *)
(***************************************************************************)
C9_ConceptsComeFromMrconso ==
    \A k \in DOMAIN concepts :
       /\ "_id" \in DOMAIN concepts[k]
       /\ concepts[k]["_id"] = k
       /\ Len(GetList(concepts[k], "lui")) > 0
       /\ Len(GetList(concepts[k], "sui")) > 0
       /\ \E i \in 1..Len(ConceptsLines) :
             Accepted(ConceptsLines[i]) /\ ConceptsLines[i][1] = k

(***************************************************************************)
(* C10. With languages configured, a step of a pass over MRCONSO on a line *)
(* of at least 15 fields whose language is not configured changes no       *)
(* aggregate and raises nothing: the pass goes on as if the line were not  *)
(* in the file.                                                            *)
(***************************************************************************)
AtRejectedLine ==
    /\ error = "none"
    /\ pc = "terms_loop" \/ pc = "strings_loop" \/ pc = "concepts_loop"
    /\ idx < Len(files["MRCONSO.RRF"])
    /\ Len(files["MRCONSO.RRF"][idx + 1]) >= 15
    /\ languages # {}
    /\ files["MRCONSO.RRF"][idx + 1][2] \notin languages

C10_RejectedLineNoEffect ==
    [][AtRejectedLine =>
          /\ terms' = terms
          /\ strings' = strings
          /\ concepts' = concepts
          /\ error' = error]_vars

====
